---------------------------- MODULE Spec2Model ----------------------------
(* Service A (applications/python/service-a/main.py): a FastAPI process    *)
(* whose "http" middleware records a counter, a histogram and a summary    *)
(* for every request that comes back from the downstream handler, and      *)
(* whose GET /metrics route serialises the registry.                       *)
(*                                                                         *)
(* The process runs one asyncio event loop: code between two await points  *)
(* runs without interleaving, so each action below is one such stretch of  *)
(* code.  Time is counted in tenths of a second.                           *)
EXTENDS Integers, Sequences, FiniteSets, TLC

\* ------------------------------------------------------------------ bounds
MaxReq == 2

\* ------------------------------------------------------------ input sets
\* the requests the callers send
Requests == {<<"GET", "/healthy">>, <<"GET", "/notFound">>,
             <<"GET", "/serverError">>, <<"GET", "/crash">>,
             <<"GET", "/example">>, <<"GET", "/metrics">>,
             <<"POST", "/healthy">>}
\* the values time.time() takes
Timestamps == {0, 7, 120}

\* ------------------------------------------------------------- the routes
GetRoutes == {"/", "/healthy", "/serverError", "/notFound", "/logs",
              "/crash", "/example", "/metrics", "/call-service-b"}

\* routes whose handler runs to its return without awaiting
PlainRoutes == {"/", "/healthy", "/serverError", "/notFound", "/logs",
                "/call-service-b"}

NoResponse == [status_code |-> 0, content |-> [none |-> TRUE]]

\* the responses a plain route can return (call_service_b: service B
\* answers, or the call fails and the except branch answers 500)
RouteResponses(path) ==
  CASE path = "/"            -> {[status_code |-> 200,
                                  content |-> [json |-> "status: Running"]]}
    [] path = "/healthy"     -> {[status_code |-> 200,
                                  content |-> [json |-> "status: healthy"]]}
    [] path = "/serverError" -> {[status_code |-> 500,
                                  content |-> [json |-> "error: Internal server error"]]}
    [] path = "/notFound"    -> {[status_code |-> 404,
                                  content |-> [json |-> "error: Not Found"]]}
    [] path = "/logs"        -> {[status_code |-> 200,
                                  content |-> [json |-> "objective: To generate logs"]]}
    [] path = "/call-service-b" ->
                                {[status_code |-> 200,
                                  content |-> [text |-> "Service B says"]],
                                 [status_code |-> 500,
                                  content |-> [json |-> "error: Error communicating with Service B"]]}

\* what the router answers when no GET route matches: the handler is not run
RouterResponse(method, path) ==
  IF path \in GetRoutes
    THEN [status_code |-> 405, content |-> [json |-> "detail: Method Not Allowed"]]
    ELSE [status_code |-> 404, content |-> [json |-> "detail: Not Found"]]

\* str(status_code), as labels() stores label values
StatusLabel(code) ==
  CASE code = 200 -> "200"
    [] code = 404 -> "404"
    [] code = 405 -> "405"
    [] code = 500 -> "500"

\* ------------------------------------------------------------ the metrics
\* buckets=(0.1, 0.5, 1, 5, 10), in tenths of a second; +Inf is bucket 6
Buckets == <<1, 5, 10, 50, 100>>
NumBuckets == Len(Buckets) + 1

NoSeries == [li \in {} |-> 0]

\* a labels() that keeps only the child it creates
LabelsEvict(metric, li, fresh) ==
  IF li \in DOMAIN metric THEN metric ELSE [l \in {li} |-> fresh]

\* metric.labels(...): the child of the label instance, created on first use
Labels(metric, li, fresh) ==
  IF li \in DOMAIN metric THEN metric
  ELSE [l \in DOMAIN metric \cup {li} |-> IF l = li THEN fresh ELSE metric[l]]

\* an inc() on a child that starts at 1
CounterIncFromOne(metric, li) ==
  LET m == Labels(metric, li, 1) IN [m EXCEPT ![li] = @ + 1]

\* Counter.inc()
CounterInc(metric, li) ==
  LET m == Labels(metric, li, 0) IN [m EXCEPT ![li] = @ + 1]

\* the bucket an observation falls in: the first bound with amount <= bound
BucketOf(amount) ==
  IF \E i \in 1..Len(Buckets) : amount <= Buckets[i]
    THEN CHOOSE i \in 1..Len(Buckets) :
           /\ amount <= Buckets[i]
           /\ \A j \in 1..(i-1) : amount > Buckets[j]
    ELSE NumBuckets

FreshHistogram == [buckets |-> [i \in 1..NumBuckets |-> 0], sum |-> 0]

\* an observe() that counts the observation and leaves the sum alone
HistogramObserveNoSum(metric, li, amount) ==
  LET m == Labels(metric, li, FreshHistogram) IN
  [m EXCEPT ![li] = [buckets |-> [@.buckets EXCEPT ![BucketOf(amount)] = @ + 1],
                     sum     |-> @.sum]]

\* Histogram.observe(amount)
HistogramObserve(metric, li, amount) ==
  LET m == Labels(metric, li, FreshHistogram) IN
  [m EXCEPT ![li] = [buckets |-> [@.buckets EXCEPT ![BucketOf(amount)] = @ + 1],
                     sum     |-> @.sum + amount]]

FreshSummary == [count |-> 0, sum |-> 0]

\* an observe() that adds to the sum and leaves the count alone
SummaryObserveSumOnly(metric, li, amount) ==
  LET m == Labels(metric, li, FreshSummary) IN
  [m EXCEPT ![li] = [count |-> @.count, sum |-> @.sum + amount]]

\* Summary.observe(amount)
SummaryObserve(metric, li, amount) ==
  LET m == Labels(metric, li, FreshSummary) IN
  [m EXCEPT ![li] = [count |-> @.count + 1, sum |-> @.sum + amount]]

\* Gauge.set(value), as the timer of gauge.labels(...).time() calls it
GaugeSet(metric, li, value) ==
  LET m == Labels(metric, li, 0) IN [m EXCEPT ![li] = value]

RECURSIVE Accumulate(_, _)
\* the cumulative count of buckets 1..i
Accumulate(buckets, i) ==
  IF i = 0 THEN 0 ELSE Accumulate(buckets, i - 1) + buckets[i]

\* samples whose buckets are not accumulated
HistogramSamplesRaw(child) ==
  [bucket |-> child.buckets,
   count  |-> Accumulate(child.buckets, NumBuckets),
   sum    |-> child.sum]

\* the samples of one histogram child: cumulative buckets, _count, _sum
HistogramSamples(child) ==
  [bucket |-> [i \in 1..NumBuckets |-> Accumulate(child.buckets, i)],
   count  |-> Accumulate(child.buckets, NumBuckets),
   sum    |-> child.sum]

\* generate_latest(): the samples of every child of every metric
GenerateLatest(c, h, s, g) ==
  [http_requests_total |-> c,
   http_request_duration_seconds |-> [li \in DOMAIN h |-> HistogramSamples(h[li])],
   http_request_duration_summary_seconds |-> s,
   node_gauge_example |-> g]

\* ------------------------------------------------------------------ state
VARIABLES
  alive,                      \* the process has not exited
  now,                        \* time.time()
  req,                        \* the requests received, in order of arrival
  http_request_counter,
  request_duration_histogram,
  request_duration_summary,
  gauge

vars == <<alive, now, req, http_request_counter,
          request_duration_histogram, request_duration_summary, gauge>>

registry == <<http_request_counter, request_duration_histogram,
              request_duration_summary, gauge>>

ReqIds == 1..Len(req)

Init ==
  /\ alive = TRUE
  /\ now = 0
  /\ req = <<>>
  /\ http_request_counter = NoSeries
  /\ request_duration_histogram = NoSeries
  /\ request_duration_summary = NoSeries
  /\ gauge = NoSeries

\* time passes
Tick(t) ==
  /\ alive
  /\ t > now
  /\ now' = t
  /\ UNCHANGED <<alive, req, registry>>

\* prometheus_middleware up to its await: start the timer, call call_next
MiddlewareEnter(method, path) ==
  /\ alive
  /\ Len(req) < MaxReq
  /\ req' = Append(req, [method      |-> method,
                         path        |-> path,
                         pc          |-> "called",
                         start_time  |-> now,
                         calls       |-> 1,
                         timer_start |-> 0,
                         response    |-> NoResponse,
                         duration    |-> 0,
                         returned    |-> NoResponse])
  /\ UNCHANGED <<alive, now, registry>>

Routed(i) == req[i].method = "GET" /\ req[i].path \in GetRoutes

\* no GET route matches: the router answers 404 or 405
RouterDefault(i) ==
  /\ alive
  /\ req[i].pc = "called"
  /\ ~Routed(i)
  /\ req' = [req EXCEPT ![i].pc = "responded",
                        ![i].response = RouterResponse(req[i].method, req[i].path)]
  /\ UNCHANGED <<alive, now, registry>>

\* root, healthy, server_error, not_found, logs, call_service_b
PlainHandler(i) ==
  /\ alive
  /\ req[i].pc = "called"
  /\ Routed(i)
  /\ req[i].path \in PlainRoutes
  /\ \E r \in RouteResponses(req[i].path) :
       req' = [req EXCEPT ![i].pc = "responded", ![i].response = r]
  /\ UNCHANGED <<alive, now, registry>>

\* a crash handler that answers 500 and lets the process live
CrashReturns(i) ==
  /\ alive
  /\ req[i].pc = "called"
  /\ Routed(i)
  /\ req[i].path = "/crash"
  /\ req' = [req EXCEPT ![i].pc = "responded",
                        ![i].response = [status_code |-> 500,
                                         content |-> [json |-> "error: crash"]]]
  /\ UNCHANGED <<alive, now, registry>>

\* crash: os._exit(1)
Crash(i) ==
  /\ alive
  /\ req[i].pc = "called"
  /\ Routed(i)
  /\ req[i].path = "/crash"
  /\ alive' = FALSE
  /\ UNCHANGED <<now, req, registry>>

\* example, up to its await: enter the gauge timer and go to sleep
ExampleEnter(i) ==
  /\ alive
  /\ req[i].pc = "called"
  /\ Routed(i)
  /\ req[i].path = "/example"
  /\ req' = [req EXCEPT ![i].pc = "awaiting", ![i].timer_start = now]
  /\ UNCHANGED <<alive, now, registry>>

\* example, after the sleep: leave the gauge timer, return the response
ExampleReturn(i) ==
  /\ alive
  /\ req[i].pc = "awaiting"
  /\ gauge' = GaugeSet(gauge, <<req[i].method, "running">>,
                       now - req[i].timer_start)
  /\ req' = [req EXCEPT ![i].pc = "responded",
                        ![i].timer_start = 0,
                        ![i].response = [status_code |-> 200,
                                         content |-> [text |-> "Async task completed"]]]
  /\ UNCHANGED <<alive, now, http_request_counter,
                 request_duration_histogram, request_duration_summary>>

\* example, cancelled while asleep: the await raises, the gauge timer is left
ExampleCancelled(i) ==
  /\ alive
  /\ req[i].pc = "awaiting"
  /\ gauge' = GaugeSet(gauge, <<req[i].method, "running">>,
                       now - req[i].timer_start)
  /\ req' = [req EXCEPT ![i].pc = "raised", ![i].timer_start = 0]
  /\ UNCHANGED <<alive, now, http_request_counter,
                 request_duration_histogram, request_duration_summary>>

\* a metrics handler whose body already counts the scrape itself
MetricsCountsItself(i) ==
  /\ alive
  /\ req[i].pc = "called"
  /\ Routed(i)
  /\ req[i].path = "/metrics"
  /\ req' = [req EXCEPT ![i].pc = "responded",
                        ![i].response =
                           [status_code |-> 200,
                            content |-> GenerateLatest(
                               CounterInc(http_request_counter,
                                          <<req[i].method, req[i].path, "200">>),
                               request_duration_histogram,
                               request_duration_summary,
                               gauge)]]
  /\ UNCHANGED <<alive, now, registry>>

\* metrics: the body is generate_latest() at the time the handler runs
Metrics(i) ==
  /\ alive
  /\ req[i].pc = "called"
  /\ Routed(i)
  /\ req[i].path = "/metrics"
  /\ req' = [req EXCEPT ![i].pc = "responded",
                        ![i].response =
                           [status_code |-> 200,
                            content |-> GenerateLatest(http_request_counter,
                                                       request_duration_histogram,
                                                       request_duration_summary,
                                                       gauge)]]
  /\ UNCHANGED <<alive, now, registry>>

\* the label instance the middleware builds for request i
LabelsOf(i) == <<req[i].method, req[i].path, StatusLabel(req[i].response.status_code)>>

\* a middleware that returns a response of its own making
MiddlewareRecordRewrites(i) ==
  /\ alive
  /\ req[i].pc = "responded"
  /\ LET duration == now - req[i].start_time
         li == LabelsOf(i)
     IN /\ http_request_counter' = CounterInc(http_request_counter, li)
        /\ request_duration_histogram' =
             HistogramObserve(request_duration_histogram, li, duration)
        /\ request_duration_summary' =
             SummaryObserve(request_duration_summary, li, duration)
        /\ req' = [req EXCEPT ![i].pc = "returned",
                              ![i].start_time = 0,
                              ![i].duration = duration,
                              ![i].returned =
                                 [status_code |-> req[i].response.status_code,
                                  content |-> [json |-> "recorded"]]]
  /\ UNCHANGED <<alive, now, gauge>>

\* prometheus_middleware after its await: record the three metrics, return
MiddlewareRecord(i) ==
  /\ alive
  /\ req[i].pc = "responded"
  /\ LET duration == now - req[i].start_time
         li == LabelsOf(i)
     IN /\ http_request_counter' = CounterInc(http_request_counter, li)
        /\ request_duration_histogram' =
             HistogramObserve(request_duration_histogram, li, duration)
        /\ request_duration_summary' =
             SummaryObserve(request_duration_summary, li, duration)
        /\ req' = [req EXCEPT ![i].pc = "returned",
                              ![i].start_time = 0,
                              ![i].duration = duration,
                              ![i].returned = req[i].response]
  /\ UNCHANGED <<alive, now, gauge>>

\* prometheus_middleware when its await raises: the exception passes through
MiddlewareRaise(i) ==
  /\ alive
  /\ req[i].pc = "raised"
  /\ req' = [req EXCEPT ![i].pc = "failed", ![i].start_time = 0]
  /\ UNCHANGED <<alive, now, registry>>

\* a server that may write the response before the middleware returns it
SendResponseEarly(i) ==
  /\ alive
  /\ req[i].pc \in {"responded", "returned"}
  /\ req' = [req EXCEPT ![i].pc = "sent"]
  /\ UNCHANGED <<alive, now, registry>>

\* the server writes the returned response to the caller
SendResponse(i) ==
  /\ alive
  /\ req[i].pc = "returned"
  /\ req' = [req EXCEPT ![i].pc = "sent"]
  /\ UNCHANGED <<alive, now, registry>>

Next ==
  \/ \E t \in Timestamps : Tick(t)
  \/ \E rq \in Requests : MiddlewareEnter(rq[1], rq[2])
  \/ \E i \in ReqIds : RouterDefault(i)
  \/ \E i \in ReqIds : PlainHandler(i)
  \/ \E i \in ReqIds : Crash(i)
  \/ \E i \in ReqIds : ExampleEnter(i)
  \/ \E i \in ReqIds : ExampleReturn(i)
  \/ \E i \in ReqIds : ExampleCancelled(i)
  \/ \E i \in ReqIds : Metrics(i)
  \/ \E i \in ReqIds : MiddlewareRecord(i)
  \/ \E i \in ReqIds : MiddlewareRaise(i)
  \/ \E i \in ReqIds : SendResponse(i)

Spec == Init /\ [][Next]_vars

\* ------------------------------------------------------- derived notions
\* the middleware has recorded request i and returned its response
Recorded(i) == req[i].pc \in {"returned", "sent"}

\* a GET /metrics request whose handler has produced its body
Scraped(i) ==
  /\ req[i].method = "GET"
  /\ req[i].path = "/metrics"
  /\ req[i].pc \in {"responded", "returned", "sent"}

\* the step in which the metrics handler of request i builds its body
ScrapeStep(i) ==
  /\ req[i].method = "GET"
  /\ req[i].path = "/metrics"
  /\ req[i].pc = "called"
  /\ req'[i].pc = "responded"

\* the step in which the middleware records request i
RecordStep(i) == req[i].pc = "responded" /\ req'[i].pc = "returned"

StatusLabels == {"200", "404", "405", "500"}
LabelInstances ==
  {<<rq[1], rq[2], st>> : rq \in Requests, st \in StatusLabels}

\* the label instances of the requests that have a response, with those of
\* the series at hand; any other label instance has no request and no series
KnownLabels(others) ==
  {LabelsOf(i) : i \in {j \in ReqIds : req[j].response # NoResponse}}
    \cup others

\* the completed requests of a label instance
RecordedWith(li) == {i \in ReqIds : Recorded(i) /\ LabelsOf(i) = li}

\* the value a snapshot reports for a counter series; 0 stands for "absent"
SeriesValue(series, li) == IF li \in DOMAIN series THEN series[li] ELSE 0
HistogramCount(series, li) ==
  IF li \in DOMAIN series THEN series[li].count ELSE 0
SummaryCount(series, li) ==
  IF li \in DOMAIN series THEN series[li].count ELSE 0

\* the exposition of the registry as it is now
Latest == GenerateLatest(http_request_counter, request_duration_histogram,
                         request_duration_summary, gauge)

RECURSIVE SumDurations(_)
SumDurations(S) ==
  IF S = {} THEN 0
  ELSE LET i == CHOOSE x \in S : TRUE
       IN req[i].duration + SumDurations(S \ {i})

\* the body of the scrape of request i
Body(i) == req[i].response.content
\* ... as its handler builds it in this step
NewBody(i) == req'[i].response.content

\* the label instance of a scrape that succeeded
ScrapeLabels == <<"GET", "/metrics", "200">>

\* ------------------------------------------------------------------ C1
\* C1: http_requests_total of a label instance is at every moment the
\* number of completed requests of that instance (no series while there is
\* none), a /metrics body built after K of them completed reports K, and
\* the only change the counter ever sees is the middleware's inc() of 1 for
\* the request it records.
C1_CounterIsCompletedCount ==
  /\ [](/\ DOMAIN http_request_counter \subseteq LabelInstances
        /\ \A li \in KnownLabels(DOMAIN http_request_counter) :
             /\ SeriesValue(http_request_counter, li) = Cardinality(RecordedWith(li))
             /\ li \in DOMAIN http_request_counter <=> RecordedWith(li) # {})
  /\ [][/\ \A i \in ReqIds : ScrapeStep(i) =>
             \A li \in KnownLabels(DOMAIN NewBody(i).http_requests_total) :
               /\ SeriesValue(NewBody(i).http_requests_total, li)
                    = Cardinality(RecordedWith(li))
               /\ li \in DOMAIN NewBody(i).http_requests_total
                    <=> RecordedWith(li) # {}
        /\ \A li \in DOMAIN http_request_counter \cup DOMAIN http_request_counter' :
             SeriesValue(http_request_counter', li)
               # SeriesValue(http_request_counter, li)
             => /\ \E i \in ReqIds : RecordStep(i) /\ LabelsOf(i) = li
                /\ SeriesValue(http_request_counter', li)
                     = SeriesValue(http_request_counter, li) + 1]_vars

\* a scrape whose body reports 1 for GET /healthy 200, one such request done
C1_Witness ==
  \E i \in ReqIds :
    /\ Scraped(i)
    /\ <<"GET", "/healthy", "200">> \in DOMAIN Body(i).http_requests_total
    /\ Body(i).http_requests_total[<<"GET", "/healthy", "200">>] = 1
    /\ Cardinality(RecordedWith(<<"GET", "/healthy", "200">>)) = 1

\* ------------------------------------------------------------------ C2
\* the three request metrics of a body agree on every label instance
CountsAgree(body) ==
  /\ DOMAIN body.http_request_duration_seconds = DOMAIN body.http_requests_total
  /\ DOMAIN body.http_request_duration_summary_seconds
       = DOMAIN body.http_requests_total
  /\ \A li \in DOMAIN body.http_requests_total :
       /\ body.http_request_duration_seconds[li].count
            = body.http_requests_total[li]
       /\ body.http_request_duration_summary_seconds[li].count
            = body.http_requests_total[li]

\* C2: every completed request, error responses included, has exactly one
\* observation in the counter, the histogram and the summary under its own
\* label instance (method, path, status of the handler's response), so the
\* three counts of a label instance are equal in the registry and in every
\* /metrics body.
C2_OneObservationEach ==
  LET latest == Latest IN
  /\ CountsAgree(latest)
  /\ \A li \in KnownLabels(DOMAIN http_request_counter
                             \cup DOMAIN request_duration_histogram
                             \cup DOMAIN request_duration_summary) :
       LET n == Cardinality(RecordedWith(li)) IN
       /\ SeriesValue(latest.http_requests_total, li) = n
       /\ HistogramCount(latest.http_request_duration_seconds, li) = n
       /\ SummaryCount(latest.http_request_duration_summary_seconds, li) = n
  /\ \A i \in ReqIds : Scraped(i) => CountsAgree(Body(i))

\* a scrape whose body shows one 404 or 500 in each of the three metrics
C2_Witness ==
  \E i \in ReqIds :
    /\ Scraped(i)
    /\ \E li \in DOMAIN Body(i).http_requests_total :
         /\ li[3] \in {"404", "500"}
         /\ Body(i).http_requests_total[li] = 1
         /\ Body(i).http_request_duration_seconds[li].count = 1
         /\ Body(i).http_request_duration_summary_seconds[li].count = 1

\* ------------------------------------------------------------------ C3
\* the requests of a label instance whose response has been sent
SentWith(li) == {j \in ReqIds : req[j].pc = "sent" /\ LabelsOf(j) = li}

\* C3: a response is sent only after the middleware recorded the request,
\* and a /metrics body built after responses were sent counts every one of
\* them in the counter, the histogram and the summary.
C3_VisibleOnceSent ==
  /\ [](LET latest == Latest IN
        \A li \in KnownLabels({}) :
          LET n == Cardinality(SentWith(li)) IN
          /\ n <= SeriesValue(latest.http_requests_total, li)
          /\ n <= HistogramCount(latest.http_request_duration_seconds, li)
          /\ n <= SummaryCount(latest.http_request_duration_summary_seconds, li))
  /\ [][\A i \in ReqIds : ScrapeStep(i) =>
          \A li \in KnownLabels({}) :
            LET n == Cardinality(SentWith(li)) IN
            /\ n <= SeriesValue(NewBody(i).http_requests_total, li)
            /\ n <= HistogramCount(NewBody(i).http_request_duration_seconds, li)
            /\ n <= SummaryCount(NewBody(i).http_request_duration_summary_seconds, li)]_vars

\* a response has been sent and a scrape shows its request in all three
C3_Witness ==
  \E i, j \in ReqIds :
    /\ req[j].pc = "sent"
    /\ Scraped(i)
    /\ req[i].pc = "responded"
    /\ LabelsOf(j) \in DOMAIN Body(i).http_requests_total
    /\ LabelsOf(j) \in DOMAIN Body(i).http_request_duration_seconds
    /\ LabelsOf(j) \in DOMAIN Body(i).http_request_duration_summary_seconds

\* ------------------------------------------------------------------ C4
\* C4: a GET /crash request never comes back from its handler, none of the
\* three metrics ever has a series for it, and when the process has exited
\* the three metrics agree on every label instance (nothing half recorded).
C4_CrashLeavesNoObservation ==
  /\ \A i \in ReqIds :
       (req[i].method = "GET" /\ req[i].path = "/crash") => req[i].pc = "called"
  /\ \A li \in DOMAIN http_request_counter \cup DOMAIN request_duration_histogram
                 \cup DOMAIN request_duration_summary :
       ~(li[1] = "GET" /\ li[2] = "/crash")
  /\ ~alive => CountsAgree(Latest)

\* the process has exited in crash after another request was recorded
C4_Witness ==
  /\ ~alive
  /\ \E i \in ReqIds : req[i].method = "GET" /\ req[i].path = "/crash"
  /\ \E i \in ReqIds : Recorded(i)

\* ------------------------------------------------------------------ C5
\* the requests of (method, path) that left the middleware, by return or by
\* an exception passing through it
LeftMiddleware(rq) ==
  {i \in ReqIds : /\ req[i].method = rq[1]
                  /\ req[i].path = rq[2]
                  /\ req[i].pc \in {"returned", "sent", "failed"}}

RECURSIVE SumSeries(_, _)
SumSeries(series, S) ==
  IF S = {} THEN 0
  ELSE LET li == CHOOSE x \in S : TRUE
       IN series[li] + SumSeries(series, S \ {li})

\* the counter observations of (method, path), over all status codes
ObservationsOf(rq) ==
  SumSeries(http_request_counter,
            {li \in DOMAIN http_request_counter : li[1] = rq[1] /\ li[2] = rq[2]})

\* C5: every request that entered the middleware and whose handler exited,
\* by returning or by raising, has its observation recorded.
C5_ObservedOnEveryExit ==
  \A rq \in Requests : Cardinality(LeftMiddleware(rq)) = ObservationsOf(rq)

\* ------------------------------------------------------------------ C6
\* count and sum are those of one set of recorded requests of li
SameObservations(li, count, sum) ==
  \E S \in SUBSET RecordedWith(li) :
    count = Cardinality(S) /\ sum = SumDurations(S)

\* C6: in every /metrics body, for every label instance, the histogram's
\* _count and _sum are the count and the sum of durations of one and the
\* same set of recorded requests, and so are the summary's.
C6_SnapshotAtomic ==
  \A i \in ReqIds : Scraped(i) =>
    /\ \A li \in DOMAIN Body(i).http_request_duration_seconds :
         SameObservations(li, Body(i).http_request_duration_seconds[li].count,
                              Body(i).http_request_duration_seconds[li].sum)
    /\ \A li \in DOMAIN Body(i).http_request_duration_summary_seconds :
         SameObservations(li, Body(i).http_request_duration_summary_seconds[li].count,
                              Body(i).http_request_duration_summary_seconds[li].sum)

\* a scrape taken while another request is in flight shows an observation
\* of non-zero duration
C6_Witness ==
  \E i \in ReqIds :
    /\ Scraped(i)
    /\ \E li \in DOMAIN Body(i).http_request_duration_seconds :
         /\ Body(i).http_request_duration_seconds[li].count = 1
         /\ Body(i).http_request_duration_seconds[li].sum > 0
         /\ Body(i).http_request_duration_summary_seconds[li].sum > 0

\* ------------------------------------------------------------------ C7
\* cumulative bucket counts never decrease and +Inf equals _count
BucketsCumulative(samples) ==
  /\ \A k \in 1..(NumBuckets - 1) : samples.bucket[k] <= samples.bucket[k + 1]
  /\ samples.bucket[NumBuckets] = samples.count

\* C7: for every label instance of http_request_duration_seconds, in the
\* registry's exposition and in every /metrics body, the cumulative bucket
\* counts are non-decreasing over the bounds 0.1, 0.5, 1, 5, 10, +Inf, the
\* +Inf bucket equals _count, and _count is the number of observations made.
C7_HistogramCumulative ==
  /\ LET latest == Latest IN
     \A li \in DOMAIN latest.http_request_duration_seconds :
       /\ BucketsCumulative(latest.http_request_duration_seconds[li])
       /\ latest.http_request_duration_seconds[li].bucket[NumBuckets]
            = Cardinality(RecordedWith(li))
  /\ \A i \in ReqIds : Scraped(i) =>
       \A li \in DOMAIN Body(i).http_request_duration_seconds :
         BucketsCumulative(Body(i).http_request_duration_seconds[li])

\* a label instance with two observations in different buckets, one of
\* them above the last bound
C7_Witness ==
  \E li \in DOMAIN request_duration_histogram :
    /\ request_duration_histogram[li].buckets[NumBuckets] = 1
    /\ Latest.http_request_duration_seconds[li].count = 2
    /\ Latest.http_request_duration_seconds[li].bucket[1] = 1

\* ------------------------------------------------------------------ C8
\* C8: the middleware calls the downstream handler exactly once for every
\* request, whatever its method and path, the response it returns is the
\* response the handler produced, and no step changes a request's method
\* or path or a response once produced.
C8_ObservesOnly ==
  /\ [](\A i \in ReqIds :
          /\ req[i].calls = 1
          /\ Recorded(i) => /\ req[i].response # NoResponse
                            /\ req[i].returned = req[i].response
          /\ ~Recorded(i) => req[i].returned = NoResponse)
  /\ [][\A i \in ReqIds :
          /\ req'[i].method = req[i].method
          /\ req'[i].path = req[i].path
          /\ req'[i].calls = req[i].calls
          /\ req[i].response # NoResponse => req'[i].response = req[i].response]_vars

\* a 405 of the router and a handler's response both passed through as is
C8_Witness ==
  \E i, j \in ReqIds :
    /\ req[i].method = "POST" /\ Recorded(i) /\ req[i].returned.status_code = 405
    /\ req[j].method = "GET" /\ Recorded(j)
    /\ req[j].returned = req[j].response
    /\ LabelsOf(j) \in DOMAIN http_request_counter

\* ------------------------------------------------------------------ C9
\* every series of a is in b with a value at least as large
SeriesGrew(a, b) ==
  \A li \in DOMAIN a : li \in DOMAIN b /\ b[li] >= a[li]

OtherScrapes(i) ==
  {j \in ReqIds \ {i} : req[j].method = "GET" /\ req[j].path = "/metrics"}

\* C10: when the scrapes are issued one after the other (the response of
\* every earlier scrape has been sent when the handler of the next runs),
\* the body of the n-th scrape reports n-1 for the series of GET /metrics
\* 200, and has no such series when n = 1.
C10_ScrapeExcludesItself ==
  [][\A i \in ReqIds :
       (ScrapeStep(i) /\ \A j \in OtherScrapes(i) : req[j].pc = "sent") =>
         LET n == Cardinality(OtherScrapes(i)) + 1
         IN /\ SeriesValue(NewBody(i).http_requests_total, ScrapeLabels) = n - 1
            /\ ScrapeLabels \in DOMAIN NewBody(i).http_requests_total <=> n > 1]_vars

\* the second of two sequential scrapes reports 1
C10_Witness ==
  \E i, j \in ReqIds :
    /\ i # j
    /\ Scraped(i)
    /\ j \in OtherScrapes(i)
    /\ req[j].pc = "sent"
    /\ ScrapeLabels \in DOMAIN Body(i).http_requests_total
    /\ Body(i).http_requests_total[ScrapeLabels] = 1

=============================================================================
